---- MODULE Spec2Model ----
(***************************************************************************)
(* Model of the SNLI data pipeline of                                      *)
(* docs/15_natural-language-processing-applications/15.4.ipynb:            *)
(*   read_snli       parses a tab-separated corpus file,                   *)
(*   SNLIDataset     tokenizes, builds/reuses a vocabulary, pads,          *)
(*   load_data_snli  wires both splits into batched iterators,             *)
(* and of the front end and back end of                                    *)
(* docs/12_computational-performance/12.2.ipynb: the Python thread that    *)
(* queues operations and blocks, the back end that executes them.          *)
(*                                                                         *)
(* Text is modelled at character level: a string is a sequence of          *)
(* one-character strings.  The three label words and the unlabeled marker  *)
(* "-" are single symbols of that alphabet (a column is a recognised label *)
(* exactly when it consists of that one symbol and nothing else).          *)
(***************************************************************************)
EXTENDS Integers, Sequences, FiniteSets, TLC

VARIABLES
    \* ---- read_snli ----
    content,      \* the characters of the corpus file handed to read_snli
    rpc,          \* "call" before read_snli runs, then "returned" or "raised"
    premises,     \* read_snli's first result list
    hypotheses,   \* read_snli's second result list
    labels,       \* read_snli's third result list
    \* ---- load_data_snli and the iteration over its loaders ----
    pc,           \* the statement of load_data_snli to run next
    batch_size,   \* argument of load_data_snli
    num_steps,    \* argument of load_data_snli
    train_data,   \* read_snli(data_dir, True)
    test_data,    \* read_snli(data_dir, False)
    heap,         \* the Vocab objects constructed so far; a vocab is held by reference
    train_set,    \* SNLIDataset(train_data, num_steps)
    test_set,     \* SNLIDataset(test_data, num_steps, train_set.vocab)
    train_iter,   \* first returned value
    test_iter,    \* second returned value
    vocab,        \* third returned value (a reference into heap)
    it,           \* the running iteration over one of the loaders
    batch,        \* the minibatch the iteration yielded last
    \* ---- the front end and the back end of 12.2.ipynb ----
    fpc,          \* the statement the Python front end runs next
    iterations,   \* the number of passes of the two benchmark loops
    count,        \* the passes of the running loop made so far
    ops,          \* ops[id]: the operations the operation id depends on
    pending,      \* the operations queued and not yet executed by the back end
    x_op,          \* the operation that computes the tensor x
    y_op,          \* the operation that computes the tensor y
    z_op,          \* the operation that computes the tensor z
    b_op,          \* the operation that computes the tensor b
    tmp_op,       \* the operation that computes the unnamed value x * y or b.sum()
    returned      \* the call the front end returned from last

readVars == <<content, rpc, premises, hypotheses, labels>>

loadVars == <<pc, batch_size, num_steps, train_data, test_data, heap, train_set,
              test_set, train_iter, test_iter, vocab, it, batch>>

asyncVars == <<fpc, iterations, count, ops, pending, x_op, y_op, z_op, b_op, tmp_op, returned>>

vars == <<readVars, loadVars, asyncVars>>

----------------------------------------------------------------------------
(* Bounds of the explored inputs *)

MaxTextLen == 5     \* longest premise/hypothesis column of the one-row files
MaxRows == 3        \* most data rows of the many-row files
MaxTrain == 2       \* most rows of the training file given to load_data_snli
MaxTest == 3        \* most rows of the test file given to load_data_snli
MaxSteps == 2       \* largest num_steps
MaxBatch == 2       \* largest batch_size
MaxIter == 3        \* most passes of a benchmark loop (range(10000) in the notebook)

----------------------------------------------------------------------------
(* Characters *)

TAB == "\t"
NL == "\n"
SP == " "
FF == "\f"
LPAREN == "("
RPAREN == ")"

\* what Python's \s and str.strip() treat as whitespace (those of the alphabet)
Whitespace == {SP, TAB, NL, FF}

\* label_set = {'entailment': 0, 'contradiction': 1, 'neutral': 2}
label_set == [x \in {<<"entailment">>, <<"contradiction">>, <<"neutral">>} |->
                 CASE x = <<"entailment">> -> 0
                   [] x = <<"contradiction">> -> 1
                   [] x = <<"neutral">> -> 2]

----------------------------------------------------------------------------
(* String helpers (Python str / re semantics) *)

\* index of the first occurrence of c in s, 0 when there is none
IndexOf(s, c) ==
    IF \E i \in 1..Len(s) : s[i] = c
    THEN CHOOSE i \in 1..Len(s) : s[i] = c /\ \A j \in 1..(i-1) : s[j] # c
    ELSE 0

Tail_(s, i) == SubSeq(s, i, Len(s))

\* f.readlines(): the file cut after every newline, newlines kept
RECURSIVE readlines(_)
readlines(s) ==
    IF s = <<>> THEN <<>>
    ELSE LET i == IndexOf(s, NL) IN
         IF i = 0 THEN <<s>>
         ELSE <<SubSeq(s, 1, i)>> \o readlines(Tail_(s, i + 1))

\* s.split(sep): always at least one field
RECURSIVE split(_, _)
split(s, sep) ==
    LET i == IndexOf(s, sep) IN
    IF i = 0 THEN <<s>>
    ELSE <<SubSeq(s, 1, i - 1)>> \o split(Tail_(s, i + 1), sep)

\* re.sub(c, '', s) for a one-character pattern
ReSubDelete(s, c) == SelectSeq(s, LAMBDA x : x # c)

\* length of the whitespace run that starts at position i of s
RECURSIVE RunLen(_, _)
RunLen(s, i) ==
    IF i > Len(s) \/ s[i] \notin Whitespace THEN 0 ELSE 1 + RunLen(s, i + 1)

\* re.sub('\\s{2,}', ' ', s): every maximal run of two or more whitespace
\* characters becomes one space; a lone whitespace character is kept as it is
RECURSIVE ReSubSpaces(_)
ReSubSpaces(s) ==
    IF s = <<>> THEN <<>>
    ELSE LET n == RunLen(s, 1) IN
         IF n >= 2 THEN <<SP>> \o ReSubSpaces(Tail_(s, n + 1))
         ELSE <<s[1]>> \o ReSubSpaces(Tail_(s, 2))

\* s.replace('  ', ' '): a slip for the pattern above (pairs of blanks, one pass)
RECURSIVE ReplacePairs(_)
ReplacePairs(s) ==
    IF Len(s) < 2 THEN s
    ELSE IF s[1] = SP /\ s[2] = SP THEN <<SP>> \o ReplacePairs(Tail_(s, 3))
         ELSE <<s[1]>> \o ReplacePairs(Tail_(s, 2))

\* s.strip()
RECURSIVE lstrip(_)
lstrip(s) == IF s # <<>> /\ s[1] \in Whitespace THEN lstrip(Tail(s)) ELSE s

RECURSIVE rstrip(_)
rstrip(s) ==
    IF s # <<>> /\ s[Len(s)] \in Whitespace
    THEN rstrip(SubSeq(s, 1, Len(s) - 1)) ELSE s

strip(s) == lstrip(rstrip(s))

----------------------------------------------------------------------------
(* read_snli *)

extract_text_pairs(s) ==
    strip(ReplacePairs(ReSubDelete(ReSubDelete(s, LPAREN), RPAREN)))

extract_text(s) ==
    strip(ReSubSpaces(ReSubDelete(ReSubDelete(s, LPAREN), RPAREN)))

\* [f(x) for x in xs]
Map(xs, f(_)) == [i \in 1..Len(xs) |-> f(xs[i])]

\* rows = [row.split('\t') for row in f.readlines()[1:]]
RowsNoSkip(text) == Map(readlines(text), LAMBDA row : split(row, TAB))

Rows(text) == Map(Tail_(readlines(text), 2), LAMBDA row : split(row, TAB))

\* the rows the three comprehensions keep: row[0] in label_set
Kept(rows) == SelectSeq(rows, LAMBDA row : row[1] \in DOMAIN label_set)

\* [extract_text(row[k]) for row in rows if row[0] in label_set] (0-based k):
\* the list, or IndexError when a kept row has no column k
Column(rows, k) ==
    IF \E i \in 1..Len(Kept(rows)) : Len(Kept(rows)[i]) < k + 1
    THEN [raised |-> TRUE, value |-> <<>>]
    ELSE [raised |-> FALSE,
          value |-> Map(Kept(rows), LAMBDA row : extract_text(row[k + 1]))]

\* a slip of the first comprehension: row[2] for row[1]
PremisesOfColumn2(rows) == Column(rows, 2)

PremisesOf(rows) == Column(rows, 1)

HypothesesOfColumn1(rows) == Column(rows, 1)

HypothesesOf(rows) == Column(rows, 2)

LabelsOf(rows) == Map(Kept(rows), LAMBDA row : label_set[row[1]])

\* The value of the call on a file: the comprehensions run in order, the first
\* IndexError ends the call and nothing is returned.
ReadSnli(text) ==
    LET rows == Rows(text)
        p == PremisesOf(rows)
        h == HypothesesOf(rows)
    IN  IF p.raised \/ h.raised
        THEN [raised |-> TRUE, premises |-> <<>>, hypotheses |-> <<>>, labels |-> <<>>]
        ELSE [raised |-> FALSE, premises |-> p.value, hypotheses |-> h.value,
              labels |-> LabelsOf(rows)]

read_snli ==
    /\ rpc = "call"
    /\ LET r == ReadSnli(content) IN
       IF r.raised
       THEN /\ rpc' = "raised"
            /\ UNCHANGED <<premises, hypotheses, labels>>
       ELSE /\ rpc' = "returned"
            /\ premises' = r.premises
            /\ hypotheses' = r.hypotheses
            /\ labels' = r.labels
    /\ UNCHANGED <<content, loadVars, asyncVars>>

----------------------------------------------------------------------------
(* Corpus files explored *)

RECURSIVE Strings(_, _)
Strings(chars, n) ==
    IF n = 0 THEN {<<>>}
    ELSE LET shorter == Strings(chars, n - 1) IN
         shorter \cup {<<c>> \o s : c \in chars, s \in {t \in shorter : Len(t) = n - 1}}

RECURSIVE Join(_, _)
Join(fields, sep) ==
    IF Len(fields) = 1 THEN fields[1]
    ELSE fields[1] \o <<sep>> \o Join(Tail(fields), sep)

RECURSIVE SeqsUpTo(_, _)
SeqsUpTo(S, n) ==
    IF n = 0 THEN {<<>>}
    ELSE LET shorter == SeqsUpTo(S, n - 1) IN
         shorter \cup {<<x>> \o s : x \in S, s \in {t \in shorter : Len(t) = n - 1}}

Header == <<"g">> \o <<TAB>> \o <<"p">> \o <<TAB>> \o <<"h">> \o <<NL>>

\* One data row with a rich text column: every string over the text alphabet
\* of up to n characters, as the premise (with a further column behind the
\* hypothesis) or as the hypothesis that ends the line.
TextChars == {"a", LPAREN, RPAREN, SP, FF}

RichRows(n) ==
    LET texts == Strings(TextChars, n) IN
    {Join(<< <<"entailment">>, t, <<"a">>, <<"x">> >>, TAB) \o <<NL>> : t \in texts}
    \cup {Join(<< <<"contradiction">>, <<"a">>, t>>, TAB) \o <<NL>> : t \in texts}

\* Short rows: labelled and unlabeled, complete, with columns missing, and
\* the empty line.
PoolRows ==
    {Join(<<l, t[1], t[2]>>, TAB) : l \in {<<"entailment">>, <<"neutral">>, <<"-">>},
                                    t \in {<<<<"a">>, <<"b">> >>, <<<<"b">>, <<"a">> >>}}
    \cup {Join(<<l, <<"a">> >>, TAB) : l \in {<<"contradiction">>, <<"-">>}}
    \cup {<<"neutral">>, <<>>}

\* Files of up to m short rows; the file ends with a newline or not; the first
\* line is a header or looks like a data row.
PoolFiles(m) ==
    {first \o Join(body, NL) \o last :
        first \in {Header, Join(<<<<"entailment">>, <<"b">>, <<"a">> >>, TAB) \o <<NL>>},
        body \in SeqsUpTo(PoolRows, m) \ {<<>>},
        last \in {<<>>, <<NL>>}}

\* The row of the corpus that the notebook prints third, each word one symbol:
\* label entailment, a premise column with "over" between parenthesis markers,
\* the hypothesis column ending the line.
ExamplePremiseColumn ==
    Join(<<<<"A">>, <<"person">>, <<"on">>, <<"a">>, <<"horse">>, <<"jumps">>,
           <<LPAREN>>, <<"over">>, <<RPAREN>>, <<"a">>, <<"broken">>, <<"down">>,
           <<"airplane">>, <<".">> >>, SP)

ExampleHypothesisColumn ==
    Join(<<<<"A">>, <<"person">>, <<"is">>, <<"outdoors">>, <<",">>, <<"on">>,
           <<"a">>, <<"horse">>, <<".">> >>, SP)

ExampleFile ==
    Header \o Join(<< <<"entailment">>, ExamplePremiseColumn,
                      ExampleHypothesisColumn>>, TAB) \o <<NL>>

Files(n, m) ==
    {<<>>, Header, ExampleFile} \cup {Header \o r : r \in RichRows(n)} \cup PoolFiles(m)

----------------------------------------------------------------------------
(* d2l helpers used by SNLIDataset: tokenize, Vocab, truncate_pad *)

\* line.split(): the maximal runs of non-whitespace characters
RECURSIVE SplitWords(_)
SplitWords(s) ==
    LET t == lstrip(s) IN
    IF t = <<>> THEN <<>>
    ELSE LET ws == {i \in 1..Len(t) : t[i] \in Whitespace}
             n == IF ws = {} THEN Len(t)
                  ELSE (CHOOSE i \in ws : \A j \in ws : i <= j) - 1
         IN  <<SubSeq(t, 1, n)>> \o SplitWords(Tail_(t, n + 1))

\* d2l.tokenize(lines): [line.split() for line in lines]
tokenize(lines) == [i \in 1..Len(lines) |-> SplitWords(lines[i])]

UNK == <<"<", "u", "n", "k", ">">>
PAD == <<"<", "p", "a", "d", ">">>

RECURSIVE Flatten(_)
Flatten(ls) == IF ls = <<>> THEN <<>> ELSE Head(ls) \o Flatten(Tail(ls))

Count(tokens, t) == Cardinality({i \in 1..Len(tokens) : tokens[i] = t})

\* the distinct tokens in the order of their first occurrence (Counter's order)
RECURSIVE Distinct(_)
Distinct(tokens) ==
    IF tokens = <<>> THEN <<>>
    ELSE <<Head(tokens)>> \o Distinct(SelectSeq(Tail(tokens), LAMBDA x : x # Head(tokens)))

\* sorted(counter.items(), key=freq, reverse=True): stable
RECURSIVE SortByFreq(_, _)
SortByFreq(ts, tokens) ==
    IF ts = <<>> THEN <<>>
    ELSE LET best == CHOOSE i \in 1..Len(ts) :
                        /\ \A j \in 1..Len(ts) : Count(tokens, ts[j]) <= Count(tokens, ts[i])
                        /\ \A j \in 1..(i - 1) : Count(tokens, ts[j]) < Count(tokens, ts[i])
         IN  <<ts[best]>> \o
             SortByFreq(SelectSeq(ts, LAMBDA x : x # ts[best]), tokens)

\* d2l.Vocab(tokens, min_freq, reserved_tokens): '<unk>', the reserved tokens,
\* then the tokens with at least min_freq occurrences, most frequent first
Vocab(lines, min_freq, reserved_tokens) ==
    LET tokens == Flatten(lines)
        first == <<UNK>> \o reserved_tokens
        frequent == SelectSeq(SortByFreq(Distinct(tokens), tokens),
                              LAMBDA t : /\ Count(tokens, t) >= min_freq
                                         /\ \A i \in 1..Len(first) : first[i] # t)
    IN  [idx_to_token |-> first \o frequent]

\* vocab.unk
unk == 0

InVocab(v, token) == \E i \in 1..Len(v.idx_to_token) : v.idx_to_token[i] = token

\* vocab[token]: token_to_idx.get(token, unk), ids counted from 0
TokenId(v, token) ==
    IF InVocab(v, token) THEN IndexOf(v.idx_to_token, token) - 1 ELSE unk

\* vocab[tokens] for a list of tokens
VocabGetItem(v, tokens) == [i \in 1..Len(tokens) |-> TokenId(v, tokens[i])]

Repeat(x, n) == [i \in 1..n |-> x]

\* d2l.truncate_pad(line, num_steps, padding_token)
truncate_pad(line, n, padding_token) ==
    IF Len(line) > n THEN SubSeq(line, 1, n)
    ELSE line \o Repeat(padding_token, n - Len(line))

----------------------------------------------------------------------------
(* SNLIDataset *)

\* vocab=None, and the values the variables hold before they are assigned
None == 0
NoData == <<<<>>, <<>>, <<>>>>
NoDataset == [num_steps |-> 0, vocab |-> None, premises |-> <<>>,
              hypotheses |-> <<>>, labels |-> <<>>]
NoLoader == [dataset |-> "none", batch_size |-> 0, shuffle |-> FALSE]
NoIteration == [state |-> "none", loader |-> "none", order |-> <<>>, pos |-> 0]
NoBatch == [first |-> 0, X0 |-> <<>>, X1 |-> <<>>, Y |-> <<>>]

MinFreq == 5

\* _pad with a defect: not truncating, unknown tokens stored as padding,
\* padding with the unknown id, keeping the last num_steps tokens
pad_untruncated(v, n, lines) ==
    [i \in 1..Len(lines) |->
        LET ids == VocabGetItem(v, lines[i]) IN
        ids \o Repeat(TokenId(v, PAD), IF n > Len(ids) THEN n - Len(ids) ELSE 0)]

pad_unknown_as_pad(v, n, lines) ==
    [i \in 1..Len(lines) |->
        truncate_pad([j \in 1..Len(lines[i]) |->
                         IF InVocab(v, lines[i][j]) THEN TokenId(v, lines[i][j])
                         ELSE TokenId(v, PAD)],
                     n, TokenId(v, PAD))]

pad_with_unk(v, n, lines) ==
    [i \in 1..Len(lines) |-> truncate_pad(VocabGetItem(v, lines[i]), n, unk)]

pad_keep_tail(v, n, lines) ==
    [i \in 1..Len(lines) |->
        LET ids == VocabGetItem(v, lines[i]) IN
        IF Len(ids) > n THEN SubSeq(ids, Len(ids) - n + 1, Len(ids))
        ELSE truncate_pad(ids, n, TokenId(v, PAD))]

\* SNLIDataset._pad with self.vocab = v and self.num_steps = n
pad(v, n, lines) ==
    [i \in 1..Len(lines) |->
        truncate_pad(VocabGetItem(v, lines[i]), n, TokenId(v, PAD))]

\* a slip of __init__: the vocabulary counts the premise tokens only
SNLIDatasetPremisesOnly(h, dataset, n, v) ==
    LET all_premise_tokens == tokenize(dataset[1])
        all_hypothesis_tokens == tokenize(dataset[2])
        h2 == IF v = None
              THEN Append(h, Vocab(all_premise_tokens, MinFreq, <<PAD>>))
              ELSE h
        ref == IF v = None THEN Len(h2) ELSE v
    IN  [heap |-> h2,
         self |-> [num_steps |-> n, vocab |-> ref,
                   premises |-> pad(h2[ref], n, all_premise_tokens),
                   hypotheses |-> pad(h2[ref], n, all_hypothesis_tokens),
                   labels |-> dataset[3]]]

\* a slip of __init__: the supplied vocab is ignored and a new one is built
SNLIDatasetRebuild(h, dataset, n, v) ==
    LET all_premise_tokens == tokenize(dataset[1])
        all_hypothesis_tokens == tokenize(dataset[2])
        h2 == Append(h, Vocab(all_premise_tokens \o all_hypothesis_tokens,
                              MinFreq, <<PAD>>))
    IN  [heap |-> h2,
         self |-> [num_steps |-> n, vocab |-> Len(h2),
                   premises |-> pad(h2[Len(h2)], n, all_premise_tokens),
                   hypotheses |-> pad(h2[Len(h2)], n, all_hypothesis_tokens),
                   labels |-> dataset[3]]]

\* SNLIDataset.__init__(self, dataset, num_steps, vocab) run on heap h: the
\* heap afterwards and the new object
SNLIDataset(h, dataset, n, v) ==
    LET all_premise_tokens == tokenize(dataset[1])
        all_hypothesis_tokens == tokenize(dataset[2])
        h2 == IF v = None
              THEN Append(h, Vocab(all_premise_tokens \o all_hypothesis_tokens,
                                   MinFreq, <<PAD>>))
              ELSE h
        ref == IF v = None THEN Len(h2) ELSE v
    IN  [heap |-> h2,
         self |-> [num_steps |-> n, vocab |-> ref,
                   premises |-> pad(h2[ref], n, all_premise_tokens),
                   hypotheses |-> pad(h2[ref], n, all_hypothesis_tokens),
                   labels |-> dataset[3]]]

\* a slip of __getitem__: premise and hypothesis the wrong way round
getitem_swapped(self, idx) ==
    <<<<self.hypotheses[idx + 1], self.premises[idx + 1]>>, <<self.labels[idx + 1]>> >>

\* SNLIDataset.__getitem__(self, idx), idx counted from 0; indexing the label
\* tensor gives a tensor of shape [1]
getitem(self, idx) ==
    <<<<self.premises[idx + 1], self.hypotheses[idx + 1]>>, <<self.labels[idx + 1]>> >>

\* SNLIDataset.__len__(self)
len(self) == Len(self.premises)

----------------------------------------------------------------------------
(* load_data_snli *)

Sentence(words) == Join(words, SP)

Line(label, p, h) == Join(<<label, p, h>>, TAB) \o <<NL>>

A == <<"a">>
B == <<"b">>
C == <<"c">>

\* rows of the training file: "a" five times in one row, "b" four times in the
\* other, whose hypothesis is empty
TrainRows ==
    {Line(<<"entailment">>, Sentence(<<A, A, A>>), Sentence(<<A, A>>)),
     Line(<<"contradiction">>, Sentence(<<B, B, B, B>>), <<>>)}

\* rows of the test file: "c" occurs in no training row
TestRows ==
    {Line(<<"contradiction">>, Sentence(<<C, A>>), Sentence(<<A, C, B>>)),
     Line(<<"entailment">>, Sentence(<<A>>), <<>>)}

\* the files of up to n of the given rows behind a header
CorpusFiles(rows, n) == {Header \o Flatten(rs) : rs \in SeqsUpTo(rows, n)}

\* the cells of 12.2.ipynb not run
AsyncIdle ==
    /\ fpc = "off"
    /\ iterations = 0
    /\ count = 0
    /\ ops = <<>>
    /\ pending = {}
    /\ x_op = 0
    /\ y_op = 0
    /\ z_op = 0
    /\ b_op = 0
    /\ tmp_op = 0
    /\ returned = "none"

Init ==
    /\ content = <<>>
    /\ rpc = "idle"
    /\ premises = <<>>
    /\ hypotheses = <<>>
    /\ labels = <<>>
    /\ pc = "read_train"
    /\ batch_size \in 1..MaxBatch
    /\ num_steps \in 1..MaxSteps
    /\ train_data = NoData
    /\ test_data = NoData
    /\ heap = <<>>
    /\ train_set = NoDataset
    /\ test_set = NoDataset
    /\ train_iter = NoLoader
    /\ test_iter = NoLoader
    /\ vocab = None
    /\ it = NoIteration
    /\ batch = NoBatch
    /\ AsyncIdle

\* train_data = read_snli(data_dir, True)
ReadTrain ==
    /\ pc = "read_train"
    /\ \E f \in CorpusFiles(TrainRows, MaxTrain) :
          LET r == ReadSnli(f) IN
          IF r.raised
          THEN pc' = "raised" /\ UNCHANGED train_data
          ELSE /\ pc' = "read_test"
               /\ train_data' = <<r.premises, r.hypotheses, r.labels>>
    /\ UNCHANGED <<asyncVars, readVars, batch_size, num_steps, test_data, heap, train_set,
                   test_set, train_iter, test_iter, vocab, it, batch>>

\* test_data = read_snli(data_dir, False)
ReadTest ==
    /\ pc = "read_test"
    /\ \E f \in CorpusFiles(TestRows, MaxTest) :
          LET r == ReadSnli(f) IN
          IF r.raised
          THEN pc' = "raised" /\ UNCHANGED test_data
          ELSE /\ pc' = "train_set"
               /\ test_data' = <<r.premises, r.hypotheses, r.labels>>
    /\ UNCHANGED <<asyncVars, readVars, batch_size, num_steps, train_data, heap, train_set,
                   test_set, train_iter, test_iter, vocab, it, batch>>

\* train_set = SNLIDataset(train_data, num_steps)
TrainSet ==
    /\ pc = "train_set"
    /\ LET r == SNLIDataset(heap, train_data, num_steps, None) IN
       /\ heap' = r.heap
       /\ train_set' = r.self
    /\ pc' = "test_set"
    /\ UNCHANGED <<asyncVars, readVars, batch_size, num_steps, train_data, test_data,
                   test_set, train_iter, test_iter, vocab, it, batch>>

\* test_set = SNLIDataset(test_data, num_steps, train_set.vocab)
TestSet ==
    /\ pc = "test_set"
    /\ LET r == SNLIDataset(heap, test_data, num_steps, train_set.vocab) IN
       /\ heap' = r.heap
       /\ test_set' = r.self
    /\ pc' = "loaders"
    /\ UNCHANGED <<asyncVars, readVars, batch_size, num_steps, train_data, test_data,
                   train_set, train_iter, test_iter, vocab, it, batch>>

\* a slip of the second DataLoader call: batch_size not passed on (default 1)
ReturnTestLoaderDefault ==
    /\ pc = "loaders"
    /\ train_iter' = [dataset |-> "train", batch_size |-> batch_size, shuffle |-> TRUE]
    /\ test_iter' = [dataset |-> "test", batch_size |-> 1, shuffle |-> FALSE]
    /\ vocab' = train_set.vocab
    /\ pc' = "returned"
    /\ UNCHANGED <<asyncVars, readVars, batch_size, num_steps, train_data, test_data, heap,
                   train_set, test_set, it, batch>>

\* the two paddle.io.DataLoader(...) calls and the return statement
Return ==
    /\ pc = "loaders"
    /\ train_iter' = [dataset |-> "train", batch_size |-> batch_size, shuffle |-> TRUE]
    /\ test_iter' = [dataset |-> "test", batch_size |-> batch_size, shuffle |-> FALSE]
    /\ vocab' = train_set.vocab
    /\ pc' = "returned"
    /\ UNCHANGED <<asyncVars, readVars, batch_size, num_steps, train_data, test_data, heap,
                   train_set, test_set, it, batch>>

Next ==
    \/ ReadTrain
    \/ ReadTest
    \/ TrainSet
    \/ TestSet
    \/ Return

\* one call of load_data_snli
Spec == Init /\ [][Next]_vars

----------------------------------------------------------------------------
(* Iterating a returned loader: for X, Y in train_iter / test_iter *)

Loader(name) == IF name = "train" THEN train_iter ELSE test_iter

Dataset(name) == IF name = "train" THEN train_set ELSE test_set

Min(a, b) == IF a < b THEN a ELSE b

\* the orders in which the sampler may visit the indices 0..n-1
Orders(n, shuffle) ==
    IF shuffle
    THEN {o \in [1..n -> 0..(n - 1)] : \A i, j \in 1..n : o[i] = o[j] => i = j}
    ELSE {[i \in 1..n |-> i - 1]}

\* the default collate function: the samples' fields stacked
Collate(samples) ==
    [X0 |-> [i \in 1..Len(samples) |-> samples[i][1][1]],
     X1 |-> [i \in 1..Len(samples) |-> samples[i][1][2]],
     Y |-> [i \in 1..Len(samples) |-> samples[i][2]]]

\* iter(loader)
IterStart(name) ==
    /\ pc = "returned"
    /\ it.state = "none"
    /\ \E o \in Orders(len(Dataset(name)), Loader(name).shuffle) :
          it' = [state |-> "active", loader |-> name, order |-> o, pos |-> 0]
    /\ UNCHANGED <<asyncVars, readVars, pc, batch_size, num_steps, train_data, test_data, heap,
                   train_set, test_set, train_iter, test_iter, vocab, batch>>

\* next(iterator) with samples left: the next batch_size indices of the order, or
\* the ones that remain when they are fewer (drop_last is not set)
NextBatch ==
    /\ it.state = "active"
    /\ it.pos < Len(it.order)
    /\ LET last == Min(it.pos + Loader(it.loader).batch_size, Len(it.order))
           samples == [k \in 1..(last - it.pos) |->
                          getitem(Dataset(it.loader), it.order[it.pos + k])]
           c == Collate(samples)
       IN  /\ batch' = [first |-> it.pos, X0 |-> c.X0, X1 |-> c.X1, Y |-> c.Y]
           /\ it' = [it EXCEPT !.pos = last]
    /\ UNCHANGED <<asyncVars, readVars, pc, batch_size, num_steps, train_data, test_data, heap,
                   train_set, test_set, train_iter, test_iter, vocab>>

\* next(iterator) with no sample left: StopIteration ends the for loop
StopIteration ==
    /\ it.state = "active"
    /\ it.pos >= Len(it.order)
    /\ it' = [it EXCEPT !.state = "exhausted"]
    /\ UNCHANGED <<asyncVars, readVars, pc, batch_size, num_steps, train_data, test_data, heap,
                   train_set, test_set, train_iter, test_iter, vocab, batch>>

\* the loop body's break after a batch
Break ==
    /\ it.state = "active"
    /\ batch # NoBatch
    /\ it' = [it EXCEPT !.state = "left"]
    /\ UNCHANGED <<asyncVars, readVars, pc, batch_size, num_steps, train_data, test_data, heap,
                   train_set, test_set, train_iter, test_iter, vocab, batch>>

NextIter ==
    \/ Next
    \/ \E name \in {"train", "test"} : IterStart(name)
    \/ NextBatch
    \/ StopIteration
    \/ Break

\* load_data_snli followed by a for loop over one of the returned loaders
SpecIter == Init /\ [][NextIter]_vars

\* load_data_snli not called
LoadIdle ==
    /\ pc = "idle"
    /\ batch_size = 0
    /\ num_steps = 0
    /\ train_data = NoData
    /\ test_data = NoData
    /\ heap = <<>>
    /\ train_set = NoDataset
    /\ test_set = NoDataset
    /\ train_iter = NoLoader
    /\ test_iter = NoLoader
    /\ vocab = None
    /\ it = NoIteration
    /\ batch = NoBatch

InitRead ==
    /\ content \in Files(MaxTextLen, MaxRows)
    /\ rpc = "call"
    /\ premises = <<>>
    /\ hypotheses = <<>>
    /\ labels = <<>>
    /\ LoadIdle
    /\ AsyncIdle

NextRead == read_snli

SpecRead == InitRead /\ [][NextRead]_vars

----------------------------------------------------------------------------
(* Front end and back end of 12.2.ipynb.  The cells from x = paddle.ones((1, 2))
   on run in order, one action per statement; before them the barrier of the
   third cell has left nothing queued.  An operation is named by the order in
   which it was queued; a tensor variable holds the operation computing it. *)

\* the front end hands an operation that needs the operations deps to the back end
Queued(deps) == Append(ops, deps)

NewOp == Len(ops) + 1

\* the value of operation id is available
Available(id) == id \notin pending

\* The back end takes a queued operation and executes it; its threads may take
\* any operation none of whose inputs is still pending.
Execute ==
    /\ \E id \in pending :
          /\ ops[id] \cap pending = {}
          /\ pending' = pending \ {id}
    /\ UNCHANGED <<readVars, loadVars, fpc, iterations, count, ops, x_op, y_op, z_op, b_op, tmp_op, returned>>

\* x = paddle.ones((1, 2))
OnesX ==
    /\ fpc = "x = ones"
    /\ ops' = Queued({}) /\ pending' = pending \cup {NewOp} /\ x_op' = NewOp
    /\ fpc' = "y = ones" /\ returned' = "queue"
    /\ UNCHANGED <<readVars, loadVars, iterations, count, y_op, z_op, b_op, tmp_op>>

\* y = paddle.ones((1, 2))
OnesY ==
    /\ fpc = "y = ones"
    /\ ops' = Queued({}) /\ pending' = pending \cup {NewOp} /\ y_op' = NewOp
    /\ fpc' = "x * y" /\ returned' = "queue"
    /\ UNCHANGED <<readVars, loadVars, iterations, count, x_op, z_op, b_op, tmp_op>>

\* z = x * y + 2: the product
Multiply ==
    /\ fpc = "x * y"
    /\ ops' = Queued({x_op, y_op}) /\ pending' = pending \cup {NewOp} /\ tmp_op' = NewOp
    /\ fpc' = "z = + 2" /\ returned' = "queue"
    /\ UNCHANGED <<readVars, loadVars, iterations, count, x_op, y_op, z_op, b_op>>

\* z = x * y + 2: the sum
AddTwo ==
    /\ fpc = "z = + 2"
    /\ ops' = Queued({tmp_op}) /\ pending' = pending \cup {NewOp} /\ z_op' = NewOp
    /\ fpc' = "print z" /\ returned' = "queue"
    /\ UNCHANGED <<readVars, loadVars, iterations, count, x_op, y_op, b_op, tmp_op>>

\* z (the cell prints it): the front end waits until z has been computed
PrintZ ==
    /\ fpc = "print z"
    /\ Available(z_op)
    /\ fpc' = "dot; synchronize" /\ returned' = "print"
    /\ UNCHANGED <<readVars, loadVars, iterations, count, ops, pending, x_op, y_op, z_op, b_op, tmp_op>>

\* b = paddle.dot(a, a), at the four places of the barrier cells
Dot(at, next) ==
    /\ fpc = at
    /\ ops' = Queued({}) /\ pending' = pending \cup {NewOp} /\ b_op' = NewOp
    /\ fpc' = next /\ returned' = "queue"
    /\ UNCHANGED <<readVars, loadVars, iterations, count, x_op, y_op, z_op, tmp_op>>

\* paddle.device.cuda.synchronize() with a defect: it returns at once
SynchronizeNoWait(at, next) ==
    /\ fpc = at
    /\ fpc' = next /\ returned' = "synchronize"
    /\ count' = IF at = "loop synchronize" THEN count + 1 ELSE count
    /\ UNCHANGED <<readVars, loadVars, iterations, ops, pending, x_op, y_op, z_op, b_op, tmp_op>>

\* paddle.device.cuda.synchronize(): waits until all computation queued on the
\* device has finished; in the loop it ends the pass
Synchronize(at, next) ==
    /\ fpc = at
    /\ pending = {}
    /\ fpc' = next /\ returned' = "synchronize"
    /\ count' = IF at = "loop synchronize" THEN count + 1 ELSE count
    /\ UNCHANGED <<readVars, loadVars, iterations, ops, pending, x_op, y_op, z_op, b_op, tmp_op>>

\* b.numpy(): the front end waits until b is available
Numpy ==
    /\ fpc = "numpy"
    /\ Available(b_op)
    /\ fpc' = "dot; sum" /\ returned' = "numpy"
    /\ UNCHANGED <<readVars, loadVars, iterations, count, ops, pending, x_op, y_op, z_op, b_op, tmp_op>>

\* b.sum().item(): the sum
Sum ==
    /\ fpc = "sum"
    /\ ops' = Queued({b_op}) /\ pending' = pending \cup {NewOp} /\ tmp_op' = NewOp
    /\ fpc' = "item" /\ returned' = "queue"
    /\ UNCHANGED <<readVars, loadVars, iterations, count, x_op, y_op, z_op, b_op>>

\* b.sum().item(): the front end waits until the sum is available
Item ==
    /\ fpc = "item"
    /\ Available(tmp_op)
    /\ fpc' = "sync for" /\ returned' = "item"
    /\ UNCHANGED <<readVars, loadVars, iterations, count, ops, pending, x_op, y_op, z_op, b_op, tmp_op>>

\* for _ in range(10000): one more pass, or the loop is left
For(at, body, next) ==
    /\ fpc = at
    /\ IF count < iterations
       THEN fpc' = body /\ UNCHANGED count
       ELSE fpc' = next /\ count' = 0
    /\ UNCHANGED <<readVars, loadVars, iterations, ops, pending, x_op, y_op, z_op, b_op, tmp_op, returned>>

\* y = x + 1 in the loop with a barrier in every pass
SyncAdd ==
    /\ fpc = "sync y = x + 1"
    /\ ops' = Queued({x_op}) /\ pending' = pending \cup {NewOp} /\ y_op' = NewOp
    /\ fpc' = "loop synchronize" /\ returned' = "queue"
    /\ UNCHANGED <<readVars, loadVars, iterations, count, x_op, z_op, b_op, tmp_op>>

\* y = x + 1 in the loop without one; it ends the pass
AsyncAdd ==
    /\ fpc = "async y = x + 1"
    /\ ops' = Queued({x_op}) /\ pending' = pending \cup {NewOp} /\ y_op' = NewOp
    /\ fpc' = "async for" /\ returned' = "queue" /\ count' = count + 1
    /\ UNCHANGED <<readVars, loadVars, iterations, x_op, z_op, b_op, tmp_op>>

InitAsync ==
    /\ content = <<>>
    /\ rpc = "idle"
    /\ premises = <<>>
    /\ hypotheses = <<>>
    /\ labels = <<>>
    /\ LoadIdle
    /\ fpc = "x = ones"
    /\ iterations \in 1..MaxIter
    /\ count = 0
    /\ ops = <<>>
    /\ pending = {}
    /\ x_op = 0
    /\ y_op = 0
    /\ z_op = 0
    /\ b_op = 0
    /\ tmp_op = 0
    /\ returned = "none"

NextAsync ==
    \/ Execute
    \/ OnesX
    \/ OnesY
    \/ Multiply
    \/ AddTwo
    \/ PrintZ
    \/ Dot("dot; synchronize", "synchronize")
    \/ Synchronize("synchronize", "dot")
    \/ Dot("dot", "dot; numpy")
    \/ Dot("dot; numpy", "numpy")
    \/ Numpy
    \/ Dot("dot; sum", "sum")
    \/ Sum
    \/ Item
    \/ For("sync for", "sync y = x + 1", "async for")
    \/ SyncAdd
    \/ Synchronize("loop synchronize", "sync for")
    \/ For("async for", "async y = x + 1", "last synchronize")
    \/ AsyncAdd
    \/ Synchronize("last synchronize", "done")

\* the cells of 12.2.ipynb from the dependency example to the two benchmark loops
SpecAsync == InitAsync /\ [][NextAsync]_vars

----------------------------------------------------------------------------
(* Claims about read_snli, checked under SpecRead *)

\* the lines of the file behind the first one, each split at the tabs
DataLines == LET ls == readlines(content) IN
             [i \in 1..(IF ls = <<>> THEN 0 ELSE Len(ls) - 1) |-> split(ls[i + 1], TAB)]

Recognised(cols) == cols[1] \in {<<"entailment">>, <<"contradiction">>, <<"neutral">>}

\* the positions in DataLines of the lines with a recognised first column, ascending
KeptPositions ==
    LET S == {i \in 1..Len(DataLines) : Recognised(DataLines[i])}
        Rank(i) == Cardinality({j \in S : j < i}) + 1
    IN  [k \in 1..Cardinality(S) |-> CHOOSE i \in S : Rank(i) = k]

HasDoubleWhitespace(s) ==
    \E i \in 1..(Len(s) - 1) : s[i] \in Whitespace /\ s[i + 1] \in Whitespace

CleanText(s) ==
    /\ \A i \in 1..Len(s) : s[i] \notin {LPAREN, RPAREN}
    /\ ~HasDoubleWhitespace(s)

\* C1: every example read_snli returns has its label in {0,1,2} and a premise
\* and a hypothesis with no parenthesis and no two adjacent whitespace characters.
C1_ExamplesClean ==
    rpc = "returned" =>
        /\ \A i \in 1..Len(labels) : labels[i] \in {0, 1, 2}
        /\ \A i \in 1..Len(premises) : CleanText(premises[i])
        /\ \A i \in 1..Len(hypotheses) : CleanText(hypotheses[i])

\* C1 witness: a returned example whose premise column held a parenthesis
\* between two blanks, so that deleting it leaves two blanks in a row.
C1_Witness ==
    /\ rpc = "returned"
    /\ Len(premises) = 1
    /\ Len(DataLines) = 1
    /\ Len(DataLines[1]) >= 3
    /\ DataLines[1][2] = <<"a", SP, LPAREN, SP, "a">>
    /\ premises[1] = <<"a", SP, "a">>

\* C2: the first line is skipped; the three lists have equal length, and their
\* i-th entries come from the i-th of the remaining lines whose first column is
\* a recognised label, in file order; other lines contribute nothing.
C2_ParallelLists ==
    rpc = "returned" =>
        /\ Len(premises) = Len(KeptPositions)
        /\ Len(hypotheses) = Len(KeptPositions)
        /\ Len(labels) = Len(KeptPositions)
        /\ \A k \in 1..Len(KeptPositions) :
              LET cols == DataLines[KeptPositions[k]] IN
              /\ premises[k] = extract_text(cols[2])
              /\ hypotheses[k] = extract_text(cols[3])
              /\ labels[k] = label_set[cols[1]]

\* C2 witness: a first line that looks like a data row, then a kept row, a
\* dropped row and another kept row with the texts the other way round.
C2_Witness ==
    /\ rpc = "returned"
    /\ Len(DataLines) = 3
    /\ Recognised(split(readlines(content)[1], TAB))
    /\ KeptPositions = <<1, 3>>
    /\ premises = << <<"a">>, <<"b">> >>
    /\ hypotheses = << <<"b">>, <<"a">> >>
    /\ labels = <<2, 0>>

\* a data line with a recognised label and fewer than three columns
ShortLabelledLine ==
    \E i \in 1..Len(DataLines) : Recognised(DataLines[i]) /\ Len(DataLines[i]) < 3

\* C3 as stated: whatever the file holds, the call returns normally.
C3_NeverRaises == rpc # "raised"

\* C3 amended: the call raises exactly when a data line has a recognised label
\* and fewer than three columns; otherwise it returns, and the lines without a
\* recognised first column (unlabeled rows, empty lines, a label directly
\* followed by the newline) are dropped without an error.
C3_RaisesIffShortLabelled ==
    rpc # "call" =>
        /\ rpc = "raised" <=> ShortLabelledLine
        /\ rpc = "returned" => Len(labels) = Len(KeptPositions)

\* C3 witness: a file with an unlabeled two-column row, an empty line and a
\* line holding only a label, read without an error.
C3_Witness ==
    /\ rpc = "returned"
    /\ \E i, j, k \in 1..Len(DataLines) :
          /\ DataLines[i] = << <<"-">>, <<"a", NL>> >>
          /\ DataLines[j] = << <<NL>> >>
          /\ DataLines[k] = << <<"neutral", NL>> >>
    /\ labels = <<>>

\* s without its parenthesis characters
NoParens(s) == SelectSeq(s, LAMBDA x : x \notin {LPAREN, RPAREN})

\* the maximal runs of non-whitespace characters of s, in order
RECURSIVE Words(_)
Words(s) ==
    IF s = <<>> THEN <<>>
    ELSE IF s[1] \in Whitespace THEN Words(Tail(s))
    ELSE LET n == CHOOSE k \in 1..Len(s) :
                      /\ \A j \in 1..k : s[j] \notin Whitespace
                      /\ (k = Len(s) \/ s[k + 1] \in Whitespace)
         IN  <<SubSeq(s, 1, n)>> \o Words(SubSeq(s, n + 1, Len(s)))

\* the whitespace runs of s that stand between two of its words, in order
Gaps(s) ==
    LET inner == {i \in 1..Len(s) : /\ s[i] \in Whitespace
                                    /\ \E j \in 1..(i - 1) : s[j] \notin Whitespace
                                    /\ \E j \in (i + 1)..Len(s) : s[j] \notin Whitespace}
        starts == {i \in inner : s[i - 1] \notin Whitespace}
        End(i) == CHOOSE e \in i..Len(s) :
                      /\ \A j \in i..e : s[j] \in Whitespace
                      /\ s[e + 1] \notin Whitespace
        Rank(i) == Cardinality({j \in starts : j < i}) + 1
    IN  [k \in 1..Cardinality(starts) |->
            LET i == CHOOSE x \in starts : Rank(x) = k IN SubSeq(s, i, End(i))]

\* e is the column text col with the parentheses removed, every run of two or
\* more whitespace characters replaced by one blank (a whitespace character
\* standing alone is not a run and stays what it is), and no whitespace left
\* at either end
Normalised(e, col) ==
    LET d == NoParens(col) IN
    /\ e = <<>> \/ (e[1] \notin Whitespace /\ e[Len(e)] \notin Whitespace)
    /\ Words(e) = Words(d)
    /\ Gaps(e) = [k \in 1..Len(Gaps(d)) |->
                     IF Len(Gaps(d)[k]) >= 2 THEN <<SP>> ELSE Gaps(d)[k]]

\* C11: for each kept row the label is the first column encoded entailment -> 0,
\* contradiction -> 1, neutral -> 2, the premise is the second column and the
\* hypothesis the third, each with the parentheses removed, the whitespace runs
\* collapsed to one blank and no whitespace at either end.
C11_FieldMapping ==
    rpc = "returned" =>
        /\ Len(premises) = Len(KeptPositions)
        /\ Len(hypotheses) = Len(KeptPositions)
        /\ Len(labels) = Len(KeptPositions)
        /\ \A k \in 1..Len(KeptPositions) :
              LET cols == DataLines[KeptPositions[k]] IN
              /\ cols[1] = <<"entailment">> => labels[k] = 0
              /\ cols[1] = <<"contradiction">> => labels[k] = 1
              /\ cols[1] = <<"neutral">> => labels[k] = 2
              /\ Normalised(premises[k], cols[2])
              /\ Normalised(hypotheses[k], cols[3])

\* C11 witness: the example row read: "over" keeps one blank on either side
\* once its parentheses are gone, and the label is 0.
C11_Witness ==
    /\ rpc = "returned"
    /\ content = ExampleFile
    /\ premises = << Join(<<<<"A">>, <<"person">>, <<"on">>, <<"a">>, <<"horse">>,
                            <<"jumps">>, <<"over">>, <<"a">>, <<"broken">>, <<"down">>,
                            <<"airplane">>, <<".">> >>, SP) >>
    /\ hypotheses = << Join(<<<<"A">>, <<"person">>, <<"is">>, <<"outdoors">>, <<",">>,
                              <<"on">>, <<"a">>, <<"horse">>, <<".">> >>, SP) >>
    /\ labels = <<0>>

----------------------------------------------------------------------------
(* Claims about SNLIDataset and load_data_snli, checked under Spec; the claim  *)
(* about the batches is checked under SpecIter                               *)

Splits == {"train", "test"}

\* the dataset of the split has been constructed
Built(name) ==
    IF name = "train" THEN pc \in {"test_set", "loaders", "returned"}
    ELSE pc \in {"loaders", "returned"}

Data(name) == IF name = "train" THEN train_data ELSE test_data

\* the tokens of the i-th premise (k = 1) or hypothesis (k = 2) of the split
TokensOf(name, k, i) == SplitWords(Data(name)[k][i])

\* what the dataset of the split stores for it
Stored(name, k, i) ==
    IF k = 1 THEN Dataset(name).premises[i] ELSE Dataset(name).hypotheses[i]

VocabOf(name) == heap[Dataset(name).vocab]

PadId(name) == TokenId(VocabOf(name), PAD)

\* every premise and hypothesis of every constructed dataset
Sequences(name) == {1, 2} \X (1..Len(Data(name)[3]))

\* C4: every stored premise and hypothesis has exactly num_steps ids, whatever
\* its number of tokens.
C4_PaddedLength ==
    \A name \in Splits : Built(name) =>
        /\ Len(Dataset(name).premises) = Len(Data(name)[1])
        /\ Len(Dataset(name).hypotheses) = Len(Data(name)[2])
        /\ \A q \in Sequences(name) : Len(Stored(name, q[1], q[2])) = num_steps

\* C4 witness: a dataset holding a sequence of zero tokens and one of more
\* than num_steps tokens.
C4_Witness ==
    /\ Built("train")
    /\ \E q \in Sequences("train") : TokensOf("train", q[1], q[2]) = <<>>
    /\ \E q \in Sequences("train") : Len(TokensOf("train", q[1], q[2])) > num_steps

Shape(m) == <<Len(m), Len(m[1])>>

Regular(m) == \A r \in 1..Len(m) : Len(m[r]) = Len(m[1])

\* C5 as stated: every yielded batch has batch_size rows.
C5_EveryBatchFull ==
    batch # NoBatch =>
        /\ Shape(batch.X0) = <<batch_size, num_steps>>
        /\ Shape(batch.X1) = <<batch_size, num_steps>>
        /\ Shape(batch.Y) = <<batch_size, 1>>

\* C5 amended: a batch has shapes [b, num_steps], [b, num_steps] and [b, 1],
\* where b is batch_size, except that the last batch of a pass holds the
\* examples that remain when they are fewer than batch_size.
C5_BatchShapes ==
    batch # NoBatch =>
        LET n == len(Dataset(it.loader))
            b == Min(batch_size, n - batch.first)
        IN  /\ b >= 1
            /\ Shape(batch.X0) = <<b, num_steps>> /\ Regular(batch.X0)
            /\ Shape(batch.X1) = <<b, num_steps>> /\ Regular(batch.X1)
            /\ Shape(batch.Y) = <<b, 1>> /\ Regular(batch.Y)
            /\ (b # batch_size => it.pos = n)

\* C5 witness: three examples in batches of two: the second batch holds one.
C5_Witness ==
    /\ batch # NoBatch
    /\ batch_size = 2
    /\ num_steps = 2
    /\ len(Dataset(it.loader)) = 3
    /\ batch.first = 2
    /\ Shape(batch.X0) = <<1, 2>>
    /\ Shape(batch.Y) = <<1, 1>>

\* C6: one vocabulary is built, from the training split alone; the test dataset
\* holds that same vocabulary, its construction leaves it as it was built, and
\* load_data_snli returns it.
C6_VocabShared ==
    /\ Built("train") =>
          /\ Len(heap) = 1
          /\ train_set.vocab = 1
          /\ heap[1] = Vocab(tokenize(train_data[1]) \o tokenize(train_data[2]),
                             5, <<PAD>>)
    /\ Built("test") => test_set.vocab = train_set.vocab
    /\ pc = "returned" => vocab = train_set.vocab

\* C6 witness: returned, with a training token in the vocabulary and a token of
\* the test data that is not in it.
C6_Witness ==
    /\ pc = "returned"
    /\ InVocab(heap[vocab], A)
    /\ \E q \in Sequences("test") :
          \E j \in 1..Len(TokensOf("test", q[1], q[2])) :
              /\ TokensOf("test", q[1], q[2])[j] = C
              /\ ~InVocab(heap[test_set.vocab], C)

\* C7: building the test dataset with the training vocabulary cannot fail, and
\* every kept token that is not in the vocabulary is stored as the unknown id.
C7_UnknownToUnk ==
    /\ pc = "test_set" =>
          LET r == SNLIDataset(heap, test_data, num_steps, train_set.vocab) IN
          /\ r.heap = heap
          /\ Len(r.self.premises) = Len(test_data[1])
          /\ Len(r.self.hypotheses) = Len(test_data[2])
    /\ Built("test") =>
          \A q \in Sequences("test") :
              LET tokens == TokensOf("test", q[1], q[2]) IN
              \A j \in 1..Min(Len(tokens), num_steps) :
                  ~InVocab(VocabOf("test"), tokens[j]) => Stored("test", q[1], q[2])[j] = unk

\* C7 witness: the test premise "c a" stored as <<0, 2>>: "c" is unknown, "a"
\* has the first id behind the reserved ones.
C7_Witness ==
    /\ Built("test")
    /\ num_steps = 2
    /\ \E i \in 1..Len(test_data[1]) :
          /\ TokensOf("test", 1, i) = <<C, A>>
          /\ test_set.premises[i] = <<unk, 2>>

\* C8: dataset[idx] is ((padded ids of the idx-th premise, padded ids of the
\* idx-th hypothesis), the idx-th label) for 0 <= idx < len(dataset), and
\* len(dataset) is the number of input examples (zero for empty input).
C8_GetItemLen ==
    \A name \in Splits : Built(name) =>
        /\ len(Dataset(name)) = Len(Data(name)[3])
        /\ \A idx \in 0..(len(Dataset(name)) - 1) :
              getitem(Dataset(name), idx) =
                  << <<pad(VocabOf(name), num_steps, <<TokensOf(name, 1, idx + 1)>>)[1],
                       pad(VocabOf(name), num_steps, <<TokensOf(name, 2, idx + 1)>>)[1]>>,
                     <<Data(name)[3][idx + 1]>> >>

\* C8 witness: an empty test split (length zero) beside a training split of two
\* examples whose second holds ((ids of "a a", padding for ""), contradiction)
\* when "b b b b" comes second and num_steps is 2.
C8_Witness ==
    /\ Built("test")
    /\ test_data = NoData
    /\ len(test_set) = 0
    /\ len(train_set) = 2
    /\ num_steps = 2
    /\ train_data[1][1] = Sentence(<<A, A, A>>)
    /\ getitem(train_set, 0) = << <<<<2, 2>>, <<2, 2>> >>, <<0>> >>
    /\ getitem(train_set, 1) = << <<<<unk, unk>>, <<1, 1>> >>, <<1>> >>

\* C9: a sequence shorter than num_steps, padded and then truncated at
\* num_steps, is its own ids in order followed by padding ids only; truncate-
\* or-pad applied to a stored sequence changes nothing.
C9_RoundTrip ==
    \A name \in Splits : Built(name) =>
        \A q \in Sequences(name) :
            LET tokens == TokensOf(name, q[1], q[2])
                stored == Stored(name, q[1], q[2])
                again == truncate_pad(stored, num_steps, PadId(name))
            IN  /\ again = stored
                /\ Len(tokens) < num_steps =>
                      /\ Len(again) = num_steps
                      /\ \A j \in 1..Len(tokens) :
                            again[j] = TokenId(VocabOf(name), tokens[j])
                      /\ \A j \in (Len(tokens) + 1)..num_steps : again[j] = PadId(name)

\* C9 witness: the one-token premise "a" with num_steps 2, stored as its id
\* followed by one padding id.
C9_Witness ==
    /\ Built("test")
    /\ num_steps = 2
    /\ \E i \in 1..Len(test_data[1]) :
          /\ TokensOf("test", 1, i) = <<A>>
          /\ test_set.premises[i] = <<2, 1>>
          /\ truncate_pad(test_set.premises[i], num_steps, 1) = <<2, 1>>

\* C10: a sequence longer than num_steps is stored as the ids of its first
\* num_steps tokens and nothing else; a shorter one is stored as its ids with
\* the padding ids behind them.
C10_TruncateTailPadRight ==
    \A name \in Splits : Built(name) =>
        \A q \in Sequences(name) :
            LET ids == VocabGetItem(VocabOf(name), TokensOf(name, q[1], q[2]))
                stored == Stored(name, q[1], q[2])
            IN  IF Len(ids) > num_steps
                THEN stored = SubSeq(ids, 1, num_steps)
                ELSE /\ SubSeq(stored, 1, Len(ids)) = ids
                     /\ SubSeq(stored, Len(ids) + 1, Len(stored)) =
                            Repeat(PadId(name), num_steps - Len(ids))

\* C10 witness: the three-token hypothesis "a c b" with num_steps 2, stored as
\* the ids of "a" and "c" with "b" cut off, beside a padded empty hypothesis.
C10_Witness ==
    /\ Built("test")
    /\ num_steps = 2
    /\ \E i, k \in 1..Len(test_data[2]) :
          /\ TokensOf("test", 2, i) = <<A, C, B>>
          /\ test_set.hypotheses[i] = <<2, unk>>
          /\ TokensOf("test", 2, k) = <<>>
          /\ test_set.hypotheses[k] = <<1, 1>>

\* the number of times token t stands in a premise or a hypothesis of the
\* training data
Occurrences(t) ==
    Cardinality({o \in UNION {{<<q[1], q[2], j>> : j \in 1..Len(TokensOf("train", q[1], q[2]))} :
                                q \in Sequences("train")} :
                    TokensOf("train", o[1], o[2])[o[3]] = t})

\* the tokens of the training data
TrainTokens ==
    UNION {{TokensOf("train", q[1], q[2])[j] : j \in 1..Len(TokensOf("train", q[1], q[2]))} :
              q \in Sequences("train")}

\* C12: the vocabulary SNLIDataset builds when none is supplied holds the
\* unknown token, the reserved '<pad>' and exactly the tokens that occur at
\* least 5 times among all premise and hypothesis tokens together, each once;
\* a token occurring 4 times or fewer has no id of its own (it is looked up as
\* the unknown id).
C12_VocabMinFreq ==
    Built("train") =>
        LET v == VocabOf("train") IN
        /\ InVocab(v, PAD) /\ InVocab(v, UNK)
        /\ \A i, j \in 1..Len(v.idx_to_token) :
              v.idx_to_token[i] = v.idx_to_token[j] => i = j
        /\ \A i \in 1..Len(v.idx_to_token) :
              \/ v.idx_to_token[i] \in {UNK, PAD}
              \/ Occurrences(v.idx_to_token[i]) >= 5
        /\ \A t \in TrainTokens \cup {A, B, C} :
              /\ Occurrences(t) >= 5 => InVocab(v, t) /\ TokenId(v, t) >= 2
              /\ Occurrences(t) <= 4 => ~InVocab(v, t) /\ TokenId(v, t) = unk

\* C12 witness: "a" stands 3 times in a premise and twice in a hypothesis and
\* is in the vocabulary; "b" stands 4 times and is not.
C12_Witness ==
    /\ Built("train")
    /\ Occurrences(A) = 5
    /\ Cardinality({i \in 1..Len(train_data[1]) : A \in
                       {TokensOf("train", 1, i)[j] : j \in 1..Len(TokensOf("train", 1, i))}}) = 1
    /\ Occurrences(B) = 4
    /\ VocabOf("train").idx_to_token = <<UNK, PAD, A>>
    /\ TokenId(VocabOf("train"), B) = unk

----------------------------------------------------------------------------
(* Claim about the front end and the back end, checked under SpecAsync *)

\* the calls that make the front end wait
BlockingCalls == {"synchronize", "print", "numpy", "item"}

\* the front end is inside the loop that has a barrier in every pass
InSyncLoop == fpc \in {"sync y = x + 1", "loop synchronize"}

\* operation id and the operations its value is computed from
RECURSIVE Needed(_)
Needed(id) == {id} \cup UNION {Needed(d) : d \in ops[id]}

\* the operations y = x + 1 queued by the benchmark loops
LoopOps == {id \in 1..Len(ops) : ops[id] = {x_op}}

====
